---- MODULE Spec2Model ----
(***************************************************************************)
(* Masked-document modelling pipeline of MD2vec/run_lm_finetuning.py:      *)
(* corpus loading (MyDataset.__init__), vocabulary construction            *)
(* (Tokenizer.__init__), masking (random_word), feature encoding           *)
(* (convert_example_to_features), sample access (MyDataset.__getitem__),   *)
(* entity weights (MyDataset.set_entities_weight) and the sweep of main    *)
(* over the masking configurations, with its epochs, evaluation hook,      *)
(* saved files and best scores.                                            *)
(*                                                                         *)
(* Text is modelled at character level: a string is a sequence of          *)
(* one-character strings, a token is such a sequence, a document list is a *)
(* sequence of them.  Probabilities and random draws are counted in units  *)
(* of 1/ProbScale.                                                         *)
(***************************************************************************)
EXTENDS Integers, Sequences, FiniteSets, TLC

\* ------------------------------------------------------------------ bounds
\* longest file content (characters) enumerated by InitLoad
MaxFileLen == 5
\* longest token sequence handed directly to convert_example_to_features
MaxLen == 3
\* largest max_seq_length (seq_len) tried
MaxSeq == 2
\* largest vocab_size tried
MaxVocabSize == 5
\* number of __getitem__ calls after which the sample counter is no longer advanced
MaxEpochs == 2
\* the largest train_batch_size
MaxBatch == 2
MaxSamples == 2

\* ------------------------------------------------------------ characters
NL == "\n"
SP == " "
Whitespace == {SP, NL}
\* characters in code-point order (the order Python compares strings in)
Alphabet == <<NL, SP, "C", "T", "[", "]", "a", "c", "d", "e", "g", "h",
              "n", "o", "r", "s", "t", "x">>
CharOrd(c) == CHOOSE i \in 1..Len(Alphabet) : Alphabet[i] = c
Letters == {"C", "T", "a", "c", "d", "e", "g", "h", "n", "o", "r", "s", "t", "x"}
Lower(c) == CASE c = "C" -> "c" [] c = "T" -> "t" [] OTHER -> c

Last(s) == s[Len(s)]
Range(s) == {s[i] : i \in DOMAIN s}
SeqsUpTo(S, n) == UNION {[1..k -> S] : k \in 0..n}

\* str.strip(): drop leading and trailing whitespace
RECURSIVE LStrip(_)
LStrip(s) ==
    IF s # <<>> /\ Head(s) \in Whitespace THEN LStrip(Tail(s)) ELSE s
RECURSIVE RStrip(_)
RStrip(s) ==
    IF s # <<>> /\ Last(s) \in Whitespace
    THEN RStrip(SubSeq(s, 1, Len(s) - 1)) ELSE s
Strip(s) == RStrip(LStrip(s))

\* iteration over a text file: the lines, each keeping its line terminator
RECURSIVE FileLines(_)
FileLines(content) ==
    IF content = <<>> THEN <<>>
    ELSE LET ends == {i \in 1..Len(content) : content[i] = NL}
         IN  IF ends = {} THEN <<content>>
             ELSE LET e == CHOOSE i \in ends : \A j \in ends : i <= j
                  IN  <<SubSeq(content, 1, e)>>
                        \o FileLines(SubSeq(content, e + 1, Len(content)))

\* ------------------------------------------------------------ MyDataset.__init__
\* the loop over the lines of the file: [all_docs, doc, corpus_lines] after it
RECURSIVE ReadLoop(_, _)
ReadLoop(lines, st) ==
    IF lines = <<>> THEN st
    ELSE LET line == Strip(Head(lines))
         IN  IF line = <<>>
             THEN ReadLoop(Tail(lines),
                           [st EXCEPT !.all_docs = Append(@, st.doc), !.doc = <<>>])
             ELSE ReadLoop(Tail(lines),
                           [st EXCEPT !.doc = @ \o line,
                                      !.corpus_lines = @ + 1])

\* "if last row in file is not empty": all_docs[-1] raises IndexError on an empty list
LastRow(st) ==
    IF st.all_docs = <<>>
    THEN [err |-> "IndexError", all_docs |-> <<>>]
    ELSE IF Last(st.all_docs) # st.doc /\ st.doc # <<>>
         THEN [err |-> "none", all_docs |-> Append(st.all_docs, st.doc)]
         ELSE [err |-> "none", all_docs |-> st.all_docs]

\* corpus_path_or_list is [isPath |-> TRUE, content |-> chars] or
\* [isPath |-> FALSE, docs |-> sequence of strings]
LoadCorpus(c) ==
    IF c.isPath
    THEN LastRow(ReadLoop(FileLines(c.content),
                          [all_docs |-> <<>>, doc |-> <<>>, corpus_lines |-> 0]))
    ELSE [err |-> "none", all_docs |-> c.docs]

\* ------------------------------------------------------------ Tokenizer.tokenize
\* gensim.utils.simple_preprocess: lower-case the text, take the maximal runs of
\* alphabetic characters, keep those of MinTokenLen..MaxTokenLen characters
MinTokenLen == 2
MaxTokenLen == 15

LowerCase(s) == [i \in 1..Len(s) |-> Lower(s[i])]

\* the maximal runs of letters of s, cur being the run being read
RECURSIVE AlphaRuns(_, _)
AlphaRuns(s, cur) ==
    IF s = <<>> THEN (IF cur = <<>> THEN <<>> ELSE <<cur>>)
    ELSE IF Head(s) \in Letters THEN AlphaRuns(Tail(s), Append(cur, Head(s)))
    ELSE (IF cur = <<>> THEN <<>> ELSE <<cur>>) \o AlphaRuns(Tail(s), <<>>)

TokenLenOk(t) == Len(t) >= MinTokenLen /\ Len(t) <= MaxTokenLen

tokenize(doc) == SelectSeq(AlphaRuns(LowerCase(doc), <<>>), TokenLenOk)

\* ------------------------------------------------------------ Tokenizer.__init__
UNK == <<"[", "U", "N", "K", "]">>
MASK == <<"[", "M", "A", "S", "K", "]">>

\* CountVectorizer(max_df=1000, min_df=2, max_features=vocab_size - 2)
MinDf == 2
MaxDf == 1000

\* s sorts strictly before t (code-point order, a proper prefix first)
RECURSIVE LexLess(_, _)
LexLess(s, t) ==
    IF t = <<>> THEN FALSE
    ELSE IF s = <<>> THEN TRUE
    ELSE IF Head(s) # Head(t) THEN CharOrd(Head(s)) < CharOrd(Head(t))
    ELSE LexLess(Tail(s), Tail(t))

DocTokens(docs) == [i \in 1..Len(docs) |-> tokenize(docs[i])]
Terms(docs) == UNION {Range(DocTokens(docs)[i]) : i \in 1..Len(docs)}
\* document frequency and corpus frequency of term t
DF(docs, t) == Cardinality({i \in 1..Len(docs) : t \in Range(DocTokens(docs)[i])})
Occurrences(toks, t) == Cardinality({j \in 1..Len(toks) : toks[j] = t})
RECURSIVE TF(_, _, _)
TF(docs, t, i) ==
    IF i = 0 THEN 0 ELSE Occurrences(tokenize(docs[i]), t) + TF(docs, t, i - 1)

\* the terms whose document frequency lies within [min_df, max_df]
Survivors(docs) == {t \in Terms(docs) : DF(docs, t) >= MinDf /\ DF(docs, t) <= MaxDf}

Min(a, b) == IF a < b THEN a ELSE b

\* max_features: the sets the 'limit' most frequent survivors can be (ties in the
\* corpus frequency are broken by the sort, in an order the source does not fix)
TopSets(docs, limit) ==
    {S \in SUBSET Survivors(docs) :
        /\ Cardinality(S) = Min(limit, Cardinality(Survivors(docs)))
        /\ \A a \in S : \A b \in Survivors(docs) \ S :
              TF(docs, a, Len(docs)) >= TF(docs, b, Len(docs))}

\* counter.vocabulary_: the kept terms numbered in sorted order
Vocabulary_(S) == [t \in S |-> Cardinality({u \in S : LexLess(u, t)})]

\* fit_transform raises ValueError for max_features <= 0, for a corpus without
\* terms and when no term survives the document-frequency pruning
CountVectorizerFails(docs, vocab_size) ==
    \/ vocab_size - 2 <= 0
    \/ Terms(docs) = {}
    \/ Survivors(docs) = {}

SetItem(v, key, val) == [t \in DOMAIN v \cup {key} |-> IF t = key THEN val ELSE v[t]]
VocabLen(v) == Cardinality(DOMAIN v)

\* mutant of AddSentinels: the two sentinels assigned in the other order
AddSentinelsSwapped(v) ==
    [t \in DOMAIN v \cup {UNK, MASK} |->
        IF t = MASK THEN Cardinality(DOMAIN v)
        ELSE IF t = UNK THEN Cardinality(DOMAIN v) + 1 ELSE v[t]]

\* self.vocab['[UNK]'] = len(self.vocab); self.vocab['[MASK]'] = len(self.vocab)
AddSentinels(v) ==
    LET withUnk == SetItem(v, UNK, VocabLen(v))
    IN  SetItem(withUnk, MASK, VocabLen(withUnk))

\* the vocabularies Tokenizer(docs, vocab_size) can end with
TokenizerVocabs(docs, vocab_size) ==
    {AddSentinels(Vocabulary_(S)) : S \in TopSets(docs, vocab_size - 2)}

\* mutant of TokenId: an absent token falls back to the last id of the vocabulary
TokenIdLast(v, token) == IF token \in DOMAIN v THEN v[token] ELSE v[MASK]

\* mutant of TokenId: "if not self.vocab.get(token)", which takes id 0 for absent
TokenIdFalsy(v, token) ==
    IF token \in DOMAIN v /\ v[token] # 0 THEN v[token] ELSE v[UNK]

\* Tokenizer.convert_tokens_to_ids
TokenId(v, token) == IF token \in DOMAIN v THEN v[token] ELSE v[UNK]
convert_tokens_to_ids(v, tokens) == [i \in 1..Len(tokens) |-> TokenId(v, tokens[i])]

\* mutant of ids_to_tokens: the inverse keyed by id + 1
IdsToTokensFromOne(v) ==
    [id \in {v[t] + 1 : t \in DOMAIN v} |-> CHOOSE t \in DOMAIN v : v[t] + 1 = id]

\* self.ids_to_tokens = OrderedDict([(ids, tok) for tok, ids in self.vocab.items()])
ids_to_tokens(v) ==
    [id \in {v[t] : t \in DOMAIN v} |-> CHOOSE t \in DOMAIN v : v[t] = id]

\* Tokenizer.convert_ids_to_tokens: self.ids_to_tokens[i] raises KeyError for an
\* id that is not a key
ConvertIdsFails(v, ids) == \E i \in 1..Len(ids) : ids[i] \notin DOMAIN ids_to_tokens(v)
convert_ids_to_tokens(v, ids) == [i \in 1..Len(ids) |-> ids_to_tokens(v)[ids[i]]]

\* ------------------------------------------------------------ random_word
\* probs of main, in units of 1/ProbScale; -1 means only mask one word
ProbScale == 4
SingleToken == -1
\* mask_prob before main has selected a configuration (None)
MaskProbNone == -2
Probs == <<SingleToken, 1, 2, 3, 4>>
\* values of random.random(), a number of [0, 1), in units of 1/ProbScale
Draws == 0..(ProbScale - 1)

Ignore == -1

\* mutant of RandomWordSingle: the token at mask_index is labelled but not replaced
RandomWordSingleKeep(tokens, v, mask_index) ==
    [tokens |-> tokens,
     output_label |-> [i \in 1..Len(tokens) |->
                          IF i - 1 = mask_index
                          THEN (IF tokens[i] \in DOMAIN v THEN v[tokens[i]] ELSE v[UNK])
                          ELSE Ignore]]

\* mask_prob == -1: tokens[mask_index] = "[MASK]", then the labels are read
\* from the token list as it is after that assignment
RandomWordSingle(tokens, v, mask_index) ==
    LET masked == [tokens EXCEPT ![mask_index + 1] = MASK]
    IN  [tokens |-> masked,
         output_label |-> [i \in 1..Len(masked) |->
                              IF i - 1 = mask_index THEN v[masked[i]] ELSE Ignore]]

\* the label of a masked token: tokenizer.vocab[token], [UNK] on KeyError
MaskedLabel(v, token) == IF token \in DOMAIN v THEN v[token] ELSE v[UNK]

\* mutant of RandomWordProb: a draw equal to mask_prob masks as well
RandomWordProbLe(tokens, v, p, draws) ==
    [tokens |-> [i \in 1..Len(tokens) |->
                    IF draws[i] <= p THEN MASK ELSE tokens[i]],
     output_label |-> [i \in 1..Len(tokens) |->
                    IF draws[i] <= p THEN MaskedLabel(v, tokens[i]) ELSE Ignore]]

\* mutant of RandomWordProb: the largest draw below mask_prob does not mask
RandomWordProbBelow(tokens, v, p, draws) ==
    [tokens |-> [i \in 1..Len(tokens) |->
                    IF draws[i] + 1 < p THEN MASK ELSE tokens[i]],
     output_label |-> [i \in 1..Len(tokens) |->
                    IF draws[i] + 1 < p THEN MaskedLabel(v, tokens[i]) ELSE Ignore]]

\* mask_prob == p: token i is masked when its draw prob < mask_prob
RandomWordProb(tokens, v, p, draws) ==
    [tokens |-> [i \in 1..Len(tokens) |->
                    IF draws[i] < p THEN MASK ELSE tokens[i]],
     output_label |-> [i \in 1..Len(tokens) |->
                    IF draws[i] < p THEN MaskedLabel(v, tokens[i]) ELSE Ignore]]

\* the random choices random_word can make on a token list of length n:
\* a mask_index of randint(0, n - 1), or one draw per token
Choices(n, p) ==
    IF p = SingleToken
    THEN {[mask_index |-> m, draws |-> <<>>] : m \in 0..(n - 1)}
    ELSE {[mask_index |-> 0, draws |-> d] : d \in [1..n -> Draws]}

\* random_word under the global mask_prob p, with random choice ch
random_word(tokens, v, p, ch) ==
    IF p = SingleToken
    THEN RandomWordSingle(tokens, v, ch.mask_index)
    ELSE RandomWordProb(tokens, v, p, ch.draws)

\* ------------------------------------------------------------ convert_example_to_features
Fill(n, x) == [i \in 1..n |-> x]

\* mutant of Truncated: a long example is not cut
NotTruncated(input_ids, s, max_seq_length) == s

\* mutant of Padded: every list is padded with 0
PaddedZero(input_ids, s, max_seq_length, fill) ==
    IF Len(input_ids) < max_seq_length
    THEN s \o Fill(max_seq_length - Len(input_ids), 0)
    ELSE s

\* mutant of Truncated: a long example keeps its last max_seq_length entries
TruncatedTail(input_ids, s, max_seq_length) ==
    IF Len(input_ids) > max_seq_length
    THEN SubSeq(s, Len(s) - max_seq_length + 1, Len(s))
    ELSE s

\* "if len(input_ids) > max_seq_length: s = s[:max_seq_length]"
Truncated(input_ids, s, max_seq_length) ==
    IF Len(input_ids) > max_seq_length THEN SubSeq(s, 1, max_seq_length) ELSE s

\* "while len(input_ids) < max_seq_length: s.append(fill)"
Padded(input_ids, s, max_seq_length, fill) ==
    IF Len(input_ids) < max_seq_length
    THEN s \o Fill(max_seq_length - Len(input_ids), fill)
    ELSE s

\* random.randint(0, len(tokens) - 1) raises ValueError on an empty range
RandomWordFails(tokens, p) == p = SingleToken /\ tokens = <<>>

convert_example_to_features(doc_tok, doc_id, max_seq_length, v, p, ch) ==
    IF RandomWordFails(doc_tok, p)
    THEN [err |-> "ValueError"]
    ELSE
    LET rw == random_word(doc_tok, v, p, ch)
        input_ids == convert_tokens_to_ids(v, rw.tokens)
        input_mask == Fill(Len(input_ids), 1)
        doc_ids == Fill(Len(input_ids), doc_id)
        cut_ids == Truncated(input_ids, input_ids, max_seq_length)
    IN  [err |-> "none",
         input_ids |-> Padded(cut_ids, cut_ids, max_seq_length, 0),
         input_mask |-> Padded(cut_ids,
                               Truncated(input_ids, input_mask, max_seq_length),
                               max_seq_length, 0),
         doc_id |-> Padded(cut_ids,
                           Truncated(input_ids, doc_ids, max_seq_length),
                           max_seq_length, 0),
         lm_label_ids |-> Padded(cut_ids,
                                 Truncated(input_ids, rw.output_label, max_seq_length),
                                 max_seq_length, Ignore)]

\* mutant of LogsExample: every example is logged
LogsExampleAlways(guid) == TRUE

\* "if example.guid < 1": the example is written to the log
LogsExample(guid) == guid < 1

\* ------------------------------------------------------------ MyDataset.__getitem__
\* mutant of KeepInVocab: no token is dropped
KeepAll(v, toks) == toks

\* "only keep the words in vocab": filter(lambda x: vocab.get(x), doc_tok) keeps
\* the tokens whose vocab.get is truthy
Truthy(v, token) == token \in DOMAIN v /\ v[token] # 0
KeepInVocab(v, toks) == SelectSeq(toks, LAMBDA x : Truthy(v, x))

\* the token list __getitem__(item) hands to convert_example_to_features
ExampleTokens(docs, v, item) == KeepInVocab(v, tokenize(docs[item + 1]))

\* ------------------------------------------------------------ set_entities_weight
\* "field_set.update(tec_set)": each record's own FIELD set takes the TEC strings in
UpdatedEntities(ents) ==
    [i \in 1..Len(ents) |-> [ents[i] EXCEPT !.FIELD = ents[i].FIELD \cup ents[i].TEC]]

\* mutant of EntityStrings: the TEC strings are left out
EntityStringsFieldOnly(ents) ==
    UNION {{LowerCase(e) : e \in ents[i].FIELD} : i \in 1..Len(ents)}

\* ents: the lower-cased FIELD and TEC strings of all records
EntityStrings(ents) ==
    UNION {{LowerCase(e) : e \in ents[i].FIELD \cup ents[i].TEC} : i \in 1..Len(ents)}

\* ' '.join(ents), in one of the orders the set can be iterated in
RECURSIVE JoinAll(_)
JoinAll(S) ==
    IF S = {} THEN <<>>
    ELSE LET e == CHOOSE x \in S : TRUE
         IN  IF S = {e} THEN e ELSE e \o <<SP>> \o JoinAll(S \ {e})

\* ent_ids, as the set of its members; entities is falsy when None or empty
EntIds(v, ents) ==
    IF ents # <<>>
    THEN Range(convert_tokens_to_ids(v, tokenize(JoinAll(EntityStrings(ents)))))
    ELSE {}

\* weights: position id + 1 holds the weight of word id
EntWeights(v, ents, weight) ==
    [i \in 1..VocabLen(v) |-> IF (i - 1) \in EntIds(v, ents) THEN weight ELSE 1]

\* ------------------------------------------------------------ state
VARIABLES
    dataset,         \* main's dataset argument: a corpus path's content or a list
    args,            \* main's args, an Args record
    hook,            \* main's hook argument: what kind of value the callable returns
    entities,        \* dataset.entities: one record of string sets per document
    pc,              \* where main is: "start", "config", "loaded", "tokenized",
                     \* "ready", ..., "done", "failed"
    err,             \* the exception main ended with, "none" while it runs
    mask_prob,       \* the global mask_prob
    all_docs,        \* train_dataset.all_docs
    vocab,           \* tokenizer.vocab
    sample_counter,  \* train_dataset.sample_counter
    ent_weights,     \* train_dataset.ent_weights, <<>> before set_entities_weight
    run,             \* main's locals and the calls it has made to its collaborators
    files,           \* what main has written into args.output_dir
    call,            \* the last call made: its operation, arguments and random choices
    ret              \* what that call returned (err is the exception it raised)

vars ==
    <<dataset, args, hook, entities, pc, err, mask_prob, all_docs, vocab,
      sample_counter, ent_weights, run, files, call, ret>>

word_the == <<"t", "h", "e">>
word_cat == <<"c", "a", "t">>
word_sat == <<"s", "a", "t">>
word_dog == <<"d", "o", "g">>
word_ran == <<"r", "a", "n">>
Join(a, b) == a \o <<SP>> \o b
Join3(a, b, c) == Join(Join(a, b), c)

ListCorpus(docs) == [isPath |-> FALSE, docs |-> docs]
PathCorpus(content) == [isPath |-> TRUE, content |-> content]

\* the corpora main is run on
ScenarioCorpus ==
    ListCorpus(<<Join3(word_the, word_cat, word_sat), <<>>,
                 Join3(word_the, word_dog, word_ran), <<>>>>)
CatCorpus ==
    ListCorpus(<<Join3(word_the, word_cat, word_sat),
                 Join3(word_the, word_cat, word_ran), word_cat>>)
TieCorpus ==
    ListCorpus(<<Join3(word_cat, word_dog, word_the), Join(word_the, word_dog),
                 Join(word_dog, word_cat)>>)
RareCorpus == ListCorpus(<<word_the, word_cat>>)
FileCorpus ==
    PathCorpus(Join(<<"T">> \o Tail(word_the), word_cat) \o <<NL, NL>>
               \o Join(word_the, <<"C">> \o Tail(word_cat)) \o <<NL>>)
Corpora == {ScenarioCorpus, CatCorpus, TieCorpus, RareCorpus, FileCorpus}

SeqLens == {1, MaxSeq, MaxSeq + 3}
VocabSizes == 2..MaxVocabSize

\* the fields of Args that main reads, with sizes scaled to the corpora
DefaultArgs ==
    [max_seq_length |-> MaxSeq, vocab_size |-> MaxVocabSize, do_train |-> TRUE,
     train_batch_size |-> MaxBatch, num_train_epochs |-> MaxEpochs,
     gradient_accumulation_steps |-> 1, mask_prob |-> ProbScale, all_mask |-> TRUE,
     weighted |-> FALSE, weight |-> 1]
ArgsWith(seqLens, vocabSizes) ==
    {[DefaultArgs EXCEPT !.max_seq_length = sl, !.vocab_size = vs] :
        sl \in seqLens, vs \in vocabSizes}

\* dataset.entities: per document, the FIELD, TEC and MISC strings found in it
EntityRecord(field, tec, misc) == [FIELD |-> field, TEC |-> tec, MISC |-> misc]
NoEntities == <<>>
CatEntities == <<EntityRecord({word_cat}, {}, {})>>
MixedEntities ==
    <<EntityRecord({<<"T">> \o Tail(word_the)}, {Join(word_cat, word_dog)}, {word_sat}),
      EntityRecord({}, {}, {})>>
EntityInputs == {NoEntities, CatEntities, MixedEntities}
\* args.weight when entities are weighted
EntityWeight == 3
\* the default of set_entities_weight's weight parameter
DefaultWeight == 2
\* args.weighted, args.weight and dataset.entities as main is given them
Weightings ==
    {<<FALSE, 1, NoEntities>>} \cup {<<TRUE, EntityWeight, e>> : e \in EntityInputs}

\* the values an evaluation hook can return: a number, a pair, or None
HookKinds == {"scalar", "pair", "None"}
Scores == {1, 2}
HookResults(kind) ==
    CASE kind = "scalar" -> {[kind |-> "scalar", val |-> x] : x \in Scores}
      [] kind = "pair" -> {[kind |-> "pair", val |-> <<0, x>>] : x \in Scores}
      [] OTHER -> {[kind |-> "None"]}

NoCall == [op |-> "none"]
NoRet == [err |-> "none"]
\* main before its first statement
NoRun ==
    [cfg |-> 0, planned |-> -1, model |-> <<>>, epoch |-> 0, pending |-> {},
     batch |-> 0, step |-> 0, global_step |-> 0, scores |-> <<>>, msd |-> <<>>,
     msw |-> <<>>, msds |-> <<>>, msws |-> <<>>, best_scores |-> <<>>,
     forward_calls |-> 0, optimizer_steps |-> 0, hook_calls |-> 0, phases |-> <<>>,
     gets |-> 0, logs |-> 0, batch_sizes |-> <<>>]
NoFiles == <<>>

Init ==
    /\ dataset \in Corpora
    /\ \E a \in ArgsWith(SeqLens, VocabSizes), w \in Weightings :
          /\ args = [a EXCEPT !.weighted = w[1], !.weight = w[2]]
          /\ entities = w[3]
    /\ hook = "pair"
    /\ ent_weights = <<>>
    /\ run = NoRun
    /\ files = NoFiles
    /\ pc = "start"
    /\ err = "none"
    /\ mask_prob = MaskProbNone
    /\ all_docs = <<>>
    /\ vocab = <<>>
    /\ sample_counter = 0
    /\ call = NoCall
    /\ ret = NoRet

\* main: "for p in probs: mask_prob = p"
SelectConfig ==
    /\ pc = "start"
    /\ \E k \in 1..Len(Probs) : mask_prob' = Probs[k]
    /\ pc' = "config"
    /\ UNCHANGED <<dataset, args, hook, entities, err, all_docs, vocab, sample_counter,
                   ent_weights, run, files, call, ret>>

\* MyDataset(dataset, seq_len=args.max_seq_length)
MyDatasetInitStep ==
    /\ pc = "config"
    /\ LET r == LoadCorpus(dataset)
       IN  IF r.err # "none"
           THEN /\ pc' = "failed"
                /\ err' = r.err
                /\ UNCHANGED all_docs
           ELSE /\ pc' = "loaded"
                /\ all_docs' = r.all_docs
                /\ UNCHANGED err
    /\ sample_counter' = 0
    /\ ent_weights' = <<>>
    /\ UNCHANGED <<dataset, args, hook, entities, mask_prob, vocab, call, ret>>

\* main: train_dataset = MyDataset(dataset, seq_len=args.max_seq_length)
MyDatasetInit == MyDatasetInitStep /\ UNCHANGED <<run, files>>

\* Tokenizer(train_dataset.all_docs, vocab_size=args.vocab_size);
\* train_dataset.build_vocab(tokenizer)
TokenizerInitStep ==
    /\ pc = "loaded"
    /\ call' = [op |-> "Tokenizer", docs |-> all_docs, vocab_size |-> args.vocab_size]
    /\ IF CountVectorizerFails(all_docs, args.vocab_size)
       THEN /\ pc' = "failed"
            /\ err' = "ValueError"
            /\ ret' = [err |-> "ValueError"]
            /\ UNCHANGED vocab
       ELSE /\ \E v \in TokenizerVocabs(all_docs, args.vocab_size) : vocab' = v
            /\ pc' = "tokenized"
            /\ ret' = NoRet
            /\ UNCHANGED err
    /\ UNCHANGED <<dataset, args, hook, entities, mask_prob, all_docs, sample_counter,
                   ent_weights>>

\* main: tokenizer = Tokenizer(...); train_dataset.build_vocab(tokenizer)
TokenizerInit == TokenizerInitStep /\ UNCHANGED <<run, files>>

\* train_dataset.set_entities_weight(dataset.entities, args.weight) if args.weighted,
\* else train_dataset.set_entities_weight(None)
SetEntitiesWeightStep ==
    /\ pc = "tokenized"
    /\ LET given == IF args.weighted THEN entities ELSE NoEntities
           weight == IF args.weighted THEN args.weight ELSE DefaultWeight
       IN  /\ call' = [op |-> "set_entities_weight", entities |-> given,
                        weight |-> weight]
           /\ ent_weights' = EntWeights(vocab, given, weight)
           /\ entities' = IF args.weighted THEN UpdatedEntities(entities) ELSE entities
    /\ ret' = NoRet
    /\ pc' = "ready"
    /\ UNCHANGED <<dataset, args, hook, err, mask_prob, all_docs, vocab, sample_counter>>

\* main: the call of set_entities_weight after build_vocab
SetEntitiesWeight == SetEntitiesWeightStep /\ UNCHANGED <<run, files>>

\* train_dataset[item]
GetItemStep(item) ==
    /\ sample_counter' = sample_counter + 1
    /\ LET doc_tok == ExampleTokens(all_docs, vocab, item)
       IN  IF RandomWordFails(doc_tok, mask_prob)
           THEN /\ call' = [op |-> "get", item |-> item, guid |-> sample_counter,
                            doc_tok |-> doc_tok]
                /\ ret' = [err |-> "ValueError"]
                /\ pc' = "failed"
                /\ err' = "ValueError"
           ELSE \E ch \in Choices(Len(doc_tok), mask_prob) :
                /\ call' = [op |-> "get", item |-> item, guid |-> sample_counter,
                            doc_tok |-> doc_tok, ch |-> ch]
                /\ ret' = convert_example_to_features(
                              doc_tok, item, args.max_seq_length, vocab, mask_prob, ch)
                /\ UNCHANGED <<pc, err>>
    /\ UNCHANGED <<dataset, args, hook, entities, mask_prob, all_docs, vocab,
                   ent_weights>>

\* train_dataset[item], accessed once the dataset is set up
GetItem(item) ==
    /\ pc = "ready"
    /\ sample_counter < MaxSamples
    /\ GetItemStep(item)
    /\ UNCHANGED <<run, files>>

Next ==
    \/ SelectConfig
    \/ MyDatasetInit
    \/ TokenizerInit
    \/ SetEntitiesWeight
    \/ \E item \in 0..(Len(all_docs) - 1) : GetItem(item)

Spec == Init /\ [][Next]_vars

\* ------------------------------------------------------------ corpus files
\* every file content of at most MaxFileLen characters over FileChars
FileChars == {"a", "c", SP, NL}

InitLoad ==
    /\ dataset \in {PathCorpus(content) : content \in SeqsUpTo(FileChars, MaxFileLen)}
    /\ args = DefaultArgs
    /\ hook = "pair"
    /\ entities = NoEntities
    /\ ent_weights = <<>>
    /\ run = NoRun
    /\ files = NoFiles
    /\ pc = "config"
    /\ err = "none"
    /\ mask_prob = SingleToken
    /\ all_docs = <<>>
    /\ vocab = <<>>
    /\ sample_counter = 0
    /\ call = NoCall
    /\ ret = NoRet

NextLoad == MyDatasetInit

SpecLoad == InitLoad /\ [][NextLoad]_vars

\* ------------------------------------------------------------ masking and encoding
\* random_word and convert_example_to_features called on any token list of at most
\* MaxLen tokens, under every vocabulary Tokenizer builds from CatCorpus
TokenPool == {word_cat, word_the}
DocIds == {0, 1}

InitEncode ==
    /\ dataset = CatCorpus
    /\ args \in ArgsWith(1..MaxSeq, 3..MaxVocabSize)
    /\ hook = "pair"
    /\ entities = NoEntities
    /\ run = NoRun
    /\ files = NoFiles
    /\ pc = "ready"
    /\ err = "none"
    /\ mask_prob \in Range(Probs)
    /\ all_docs = LoadCorpus(dataset).all_docs
    /\ vocab \in TokenizerVocabs(all_docs, args.vocab_size)
    /\ ent_weights = EntWeights(vocab, NoEntities, DefaultWeight)
    /\ sample_counter = 0
    /\ call = NoCall
    /\ ret = NoRet

\* random_word(tokens, tokenizer), applied once to the inputs drawn
CallRandomWord(tokens) ==
    /\ pc = "ready"
    /\ call = NoCall
    /\ IF RandomWordFails(tokens, mask_prob)
       THEN /\ call' = [op |-> "random_word", tokens |-> tokens]
            /\ ret' = [err |-> "ValueError"]
       ELSE \E ch \in Choices(Len(tokens), mask_prob) :
            /\ call' = [op |-> "random_word", tokens |-> tokens, ch |-> ch]
            /\ ret' = LET rw == random_word(tokens, vocab, mask_prob, ch)
                      IN  [err |-> "none", tokens |-> rw.tokens,
                           output_label |-> rw.output_label]
    /\ UNCHANGED <<dataset, args, hook, entities, pc, err, mask_prob, all_docs, vocab,
                   sample_counter, ent_weights, run, files>>

\* convert_example_to_features(InputExample(doc_tok=tokens, doc_id=doc_id), ...)
CallConvert(tokens, doc_id) ==
    /\ pc = "ready"
    /\ call = NoCall
    /\ IF RandomWordFails(tokens, mask_prob)
       THEN /\ call' = [op |-> "convert", doc_tok |-> tokens, doc_id |-> doc_id]
            /\ ret' = [err |-> "ValueError"]
       ELSE \E ch \in Choices(Len(tokens), mask_prob) :
            /\ call' = [op |-> "convert", doc_tok |-> tokens, doc_id |-> doc_id,
                        ch |-> ch]
            /\ ret' = convert_example_to_features(
                          tokens, doc_id, args.max_seq_length, vocab, mask_prob, ch)
    /\ UNCHANGED <<dataset, args, hook, entities, pc, err, mask_prob, all_docs, vocab,
                   sample_counter, ent_weights, run, files>>

\* tokenizer.convert_tokens_to_ids(tokens), applied once to the tokens drawn
CallTokensToIds(tokens) ==
    /\ pc = "ready"
    /\ call = NoCall
    /\ call' = [op |-> "convert_tokens_to_ids", tokens |-> tokens]
    /\ ret' = [err |-> "none", ids |-> convert_tokens_to_ids(vocab, tokens)]
    /\ UNCHANGED <<dataset, args, hook, entities, pc, err, mask_prob, all_docs, vocab,
                   sample_counter, ent_weights, run, files>>

\* tokenizer.convert_ids_to_tokens(ids), applied once to the ids drawn
CallIdsToTokens(ids) ==
    /\ pc = "ready"
    /\ call = NoCall
    /\ call' = [op |-> "convert_ids_to_tokens", ids |-> ids]
    /\ ret' = IF ConvertIdsFails(vocab, ids)
              THEN [err |-> "KeyError"]
              ELSE [err |-> "none", tokens |-> convert_ids_to_tokens(vocab, ids)]
    /\ UNCHANGED <<dataset, args, hook, entities, pc, err, mask_prob, all_docs, vocab,
                   sample_counter, ent_weights, run, files>>

\* tokens in and out of the vocabularies, and ids in and out of their id ranges
ConvertPool == TokenPool \cup {word_dog, UNK}
IdPool == (-1)..MaxVocabSize

NextEncode ==
    \/ \E tokens \in SeqsUpTo(ConvertPool, MaxLen) : CallTokensToIds(tokens)
    \/ \E ids \in SeqsUpTo(IdPool, MaxLen) : CallIdsToTokens(ids)
    \/ \E tokens \in SeqsUpTo(TokenPool, MaxLen) : CallRandomWord(tokens)
    \/ \E tokens \in SeqsUpTo(TokenPool, MaxLen) :
          \E doc_id \in DocIds : CallConvert(tokens, doc_id)

SpecEncode == InitEncode /\ [][NextEncode]_vars

\* ------------------------------------------------------------ main
\* mutant of SweepList: all_mask is not consulted
SweepListAll(a) == Probs

\* probs
SweepList(a) == IF a.all_mask THEN Probs ELSE <<a.mask_prob>>

\* mutant of LoopDone: the statements after the sweep loop run inside it
LoopDoneEarly(cfg, probs) == TRUE

\* "for p in probs" has no configuration left after cfg of them were started
LoopDone(cfg, probs) == cfg = Len(probs)

\* mutant of DoTrainMissing: the do_train check is gone
DoTrainUnchecked(a) == FALSE

\* "if not args.do_train"
DoTrainMissing(a) == ~a.do_train

\* mutant of InitialMeans: the series start empty
InitialMeansNone(mean) == <<>>

\* msd = [mean of the doc embedding], msw = [mean of the word embedding], taken
\* from the model before its first epoch
InitialMeans(mean) == <<mean>>

\* the model's parameters: the configuration it was created for and the number of
\* optimizer steps applied to it; an embedding mean is a function of them
NewModel(p) == [mask_prob |-> p, updates |-> 0]
DocMean(model) == [embed |-> "doc", of |-> model]
WordMean(model) == [embed |-> "word", of |-> model]

\* f[1] for f in scores: only an indexable value with a second element has one
HasItem1(f) == f.kind = "pair"
Item1(f) == f.val[2]
RECURSIVE MaxOf(_)
MaxOf(xs) ==
    IF Len(xs) = 1 THEN xs[1]
    ELSE LET m == MaxOf(Tail(xs)) IN IF xs[1] >= m THEN xs[1] ELSE m

\* max([f[1] for f in scores])
BestScore(scores) == MaxOf([i \in 1..Len(scores) |-> Item1(scores[i])])

\* what raises in "best_scores.append(max([f[1] for f in scores]))"
BestScoreError(scores) ==
    IF \E i \in 1..Len(scores) : ~HasItem1(scores[i]) THEN "TypeError"
    ELSE IF scores = <<>> THEN "ValueError"
    ELSE "none"

\* mutant of WriteFile: an existing file is not overwritten
WriteFileOnce(fs, name, content) ==
    [n \in DOMAIN fs \cup {name} |-> IF n \in DOMAIN fs THEN fs[n] ELSE content]

\* open(path, "w") / torch.save(obj, path): the file is created or replaced
WriteFile(fs, name, content) ==
    [n \in DOMAIN fs \cup {name} |-> IF n = name THEN content ELSE fs[n]]

Phase(name, cfg, epoch) == <<name, cfg, epoch>>

dataVars == <<dataset, hook, entities, all_docs, vocab, sample_counter, ent_weights>>

\* main, from "for p in probs" to os.makedirs: the next configuration is selected
\* and args are validated
MainSelect ==
    /\ pc = "start"
    /\ ~LoopDone(run.cfg, SweepList(args))
    /\ mask_prob' = SweepList(args)[run.cfg + 1]
    /\ IF args.gradient_accumulation_steps < 1
       THEN /\ pc' = "failed"
            /\ err' = "ValueError"
            /\ run' = [run EXCEPT !.cfg = run.cfg + 1, !.planned = -1]
            /\ UNCHANGED args
       ELSE /\ args' = [args EXCEPT !.train_batch_size =
                            args.train_batch_size \div args.gradient_accumulation_steps]
            /\ run' = [run EXCEPT !.cfg = run.cfg + 1, !.planned = -1,
                                  !.batch_sizes = Append(run.batch_sizes,
                                                         args'.train_batch_size)]
            /\ IF DoTrainMissing(args)
               THEN pc' = "failed" /\ err' = "ValueError"
               ELSE pc' = "config" /\ UNCHANGED err
    /\ UNCHANGED <<dataVars, files, call, ret>>

\* main: train_dataset = MyDataset(...)
MainDataset == MyDatasetInitStep /\ UNCHANGED <<run, files>>

\* main: num_train_optimization_steps = int(len(train_dataset) /
\* args.train_batch_size / args.gradient_accumulation_steps) * args.num_train_epochs
MainPlan ==
    /\ pc = "loaded"
    /\ run.planned = -1
    /\ IF args.train_batch_size = 0
       THEN /\ pc' = "failed"
            /\ err' = "ZeroDivisionError"
            /\ UNCHANGED run
       ELSE /\ run' = [run EXCEPT !.planned =
                           (Len(all_docs) \div (args.train_batch_size
                                                  * args.gradient_accumulation_steps))
                           * args.num_train_epochs]
            /\ UNCHANGED <<pc, err>>
    /\ UNCHANGED <<dataVars, args, mask_prob, files, call, ret>>

\* main: tokenizer = Tokenizer(...); train_dataset.build_vocab(tokenizer)
MainTokenizer ==
    /\ run.planned # -1
    /\ TokenizerInitStep
    /\ run' = [run EXCEPT !.phases = Append(run.phases, Phase("vocab", run.cfg, 0))]
    /\ UNCHANGED files

\* main: train_dataset.set_entities_weight(...)
MainWeights == SetEntitiesWeightStep /\ UNCHANGED <<run, files>>

\* main, from "Prepare model" to msw = [...]: model and optimizer are created,
\* global_step = 0 and, under "if args.do_train", the per-configuration series start
MainModelInit ==
    /\ pc = "ready"
    /\ LET model == NewModel(mask_prob)
           made == [run EXCEPT !.model = model, !.global_step = 0,
                               !.phases = Append(run.phases, Phase("model", run.cfg, 0))]
       IN  IF args.do_train
           THEN /\ run' = [made EXCEPT !.scores = <<>>, !.epoch = 0,
                                       !.msd = InitialMeans(DocMean(model)),
                                       !.msw = InitialMeans(WordMean(model))]
                /\ pc' = "epoch"
           ELSE /\ run' = made
                /\ pc' = "start"
    /\ UNCHANGED <<dataVars, args, err, mask_prob, files, call, ret>>

\* main: "for _ in trange(int(args.num_train_epochs))": the next epoch starts with
\* a fresh pass of the sampler over the documents, or the loop ends
MainEpoch ==
    /\ pc = "epoch"
    /\ IF run.epoch < args.num_train_epochs
       THEN /\ run' = [run EXCEPT !.pending = 0..(Len(all_docs) - 1), !.batch = 0,
                                  !.step = 0,
                                  !.phases = Append(run.phases,
                                                    Phase("epoch", run.cfg, run.epoch))]
            /\ pc' = "batch"
       ELSE /\ pc' = "persist"
            /\ UNCHANGED run
    /\ UNCHANGED <<dataVars, args, err, mask_prob, files, call, ret>>

\* the DataLoader takes the sampler's next index and reads train_dataset[item] into
\* the batch being collected
MainFetch(item) ==
    /\ pc = "batch"
    /\ item \in run.pending
    /\ run.batch < args.train_batch_size
    /\ GetItemStep(item)
    /\ run' = [run EXCEPT !.pending = run.pending \ {item}, !.batch = run.batch + 1,
                          !.gets = run.gets + 1,
                          !.logs = run.logs + (IF ret'.err = "none"
                                                  /\ LogsExample(sample_counter)
                                               THEN 1 ELSE 0)]
    /\ UNCHANGED files

\* main, the body of "for step, batch in enumerate(train_dataloader)": the forward
\* call, which the model can fail, backward and the optimizer step
MainForward ==
    /\ pc = "batch"
    /\ run.batch > 0
    /\ run.batch = args.train_batch_size \/ run.pending = {}
    /\ \/ /\ run' = [run EXCEPT !.forward_calls = run.forward_calls + 1]
          /\ pc' = "failed"
          /\ err' = "RuntimeError"
       \/ /\ LET stepped == (run.step + 1) % args.gradient_accumulation_steps = 0
                 inc == IF stepped THEN 1 ELSE 0
             IN  run' = [run EXCEPT !.forward_calls = run.forward_calls + 1,
                                    !.batch = 0,
                                    !.step = run.step + 1,
                                    !.global_step = run.global_step + inc,
                                    !.optimizer_steps = run.optimizer_steps + inc,
                                    !.model = [run.model EXCEPT
                                                  !.updates = run.model.updates + inc]]
          /\ pc' = IF run.pending = {} THEN "means" ELSE "batch"
          /\ UNCHANGED err
    /\ UNCHANGED <<dataVars, args, mask_prob, files, call, ret>>

\* mutant of MainMeans: the means of the epoch are not recorded
MainMeansSkipped ==
    /\ pc = "means"
    /\ pc' = "hook"
    /\ UNCHANGED <<dataVars, args, err, mask_prob, run, files, call, ret>>

\* main: msd.append(...); msw.append(...) after the batches of an epoch
MainMeans ==
    /\ pc = "means"
    /\ run' = [run EXCEPT !.msd = Append(run.msd, DocMean(run.model)),
                          !.msw = Append(run.msw, WordMean(run.model))]
    /\ pc' = "hook"
    /\ UNCHANGED <<dataVars, args, err, mask_prob, files, call, ret>>

\* main: scores.append(hook(dataset, X)); the hook can raise
MainHook ==
    /\ pc = "hook"
    /\ \/ /\ run' = [run EXCEPT !.hook_calls = run.hook_calls + 1]
          /\ pc' = "failed"
          /\ err' = "HookError"
       \/ /\ \E f \in HookResults(hook) :
                run' = [run EXCEPT !.hook_calls = run.hook_calls + 1,
                                   !.scores = Append(run.scores, f),
                                   !.epoch = run.epoch + 1]
          /\ pc' = "epoch"
          /\ UNCHANGED err
    /\ UNCHANGED <<dataVars, args, mask_prob, files, call, ret>>

\* main: torch.save(state_dict, pytorch_model.bin); json.dump(bert_config)
MainPersist ==
    /\ pc = "persist"
    /\ files' = WriteFile(WriteFile(files, "pytorch_model.bin", run.model),
                          "bert_config.json", [vocab_size |-> VocabLen(vocab)])
    /\ run' = [run EXCEPT !.phases = Append(run.phases, Phase("persist", run.cfg, 0))]
    /\ pc' = "append"
    /\ UNCHANGED <<dataVars, args, err, mask_prob, call, ret>>

\* main: msds.append(msd); msws.append(msw);
\* best_scores.append(max([f[1] for f in scores]))
MainAppend ==
    /\ pc = "append"
    /\ LET kept == [run EXCEPT !.msds = Append(run.msds, run.msd),
                               !.msws = Append(run.msws, run.msw)]
       IN  IF BestScoreError(run.scores) # "none"
           THEN /\ run' = kept
                /\ pc' = "failed"
                /\ err' = BestScoreError(run.scores)
           ELSE /\ run' = [kept EXCEPT
                              !.best_scores = Append(run.best_scores,
                                                     BestScore(run.scores)),
                              !.phases = Append(run.phases,
                                                Phase("append", run.cfg, 0))]
                /\ pc' = "start"
                /\ UNCHANGED err
    /\ UNCHANGED <<dataVars, args, mask_prob, files, call, ret>>

\* main, after the loop: best_scores.txt is written and the document embedding of
\* the model of the last configuration is returned
MainFinish ==
    /\ pc = "start"
    /\ LoopDone(run.cfg, SweepList(args))
    /\ files' = WriteFile(files, "best_scores.txt", run.best_scores)
    /\ call' = [op |-> "main"]
    /\ ret' = [err |-> "none", X |-> run.model]
    /\ pc' = "done"
    /\ UNCHANGED <<dataVars, args, err, mask_prob, run>>

\* the runs of main that are explored: the default arguments and the ones that
\* differ from them in the epochs and batch size, the sweep, the accumulation
\* steps, the vocabulary size, do_train and the entity weighting
TrainCorpus ==
    ListCorpus(<<Join(word_the, word_cat), Join(word_cat, word_the),
                 Join3(word_the, word_dog, word_cat)>>)
MainCorpora == {TrainCorpus, ScenarioCorpus}
MainArgs ==
    {[DefaultArgs EXCEPT !.num_train_epochs = e, !.train_batch_size = b] :
        e \in 0..MaxEpochs, b \in 1..MaxBatch}
    \cup {[DefaultArgs EXCEPT !.all_mask = FALSE, !.mask_prob = p,
                              !.gradient_accumulation_steps = g] :
              p \in {SingleToken, 2}, g \in 1..2}
    \cup {[DefaultArgs EXCEPT !.gradient_accumulation_steps = g] : g \in {0, 2}}
    \cup {[DefaultArgs EXCEPT !.vocab_size = vs] : vs \in 1..2}
    \cup {[DefaultArgs EXCEPT !.do_train = FALSE]}
    \cup {[DefaultArgs EXCEPT !.weighted = TRUE, !.weight = EntityWeight]}

InitMain ==
    /\ dataset \in MainCorpora
    /\ args \in MainArgs
    /\ hook \in HookKinds
    /\ entities = MixedEntities
    /\ ent_weights = <<>>
    /\ run = NoRun
    /\ files = NoFiles
    /\ pc = "start"
    /\ err = "none"
    /\ mask_prob = MaskProbNone
    /\ all_docs = <<>>
    /\ vocab = <<>>
    /\ sample_counter = 0
    /\ call = NoCall
    /\ ret = NoRet

NextMain ==
    \/ MainSelect
    \/ MainDataset
    \/ MainPlan
    \/ MainTokenizer
    \/ MainWeights
    \/ MainModelInit
    \/ MainEpoch
    \/ \E item \in 0..(Len(all_docs) - 1) : MainFetch(item)
    \/ MainForward
    \/ MainMeans
    \/ MainHook
    \/ MainPersist
    \/ MainAppend
    \/ MainFinish

SpecMain == InitMain /\ [][NextMain]_vars

\* ------------------------------------------------------------ properties
NotIgnored(labels) == {i \in 1..Len(labels) : labels[i] # Ignore}
MaskedAt(tokens) == {i \in 1..Len(tokens) : tokens[i] = MASK}

\* a convert_example_to_features call that returned a Feature
Converted == call.op = "convert" /\ ret.err = "none"
\* a random_word call that returned
Masked == call.op = "random_word" /\ ret.err = "none"

\* C1: for every non-empty token sequence (shorter than, as long as or longer than
\* max_seq_length) and every masking configuration, convert_example_to_features
\* returns input_ids, input_mask, doc_id and lm_label_ids of length max_seq_length.
C1_FeatureLengths ==
    (call.op = "convert" /\ call.doc_tok # <<>>) =>
        /\ ret.err = "none"
        /\ Len(ret.input_ids) = args.max_seq_length
        /\ Len(ret.input_mask) = args.max_seq_length
        /\ Len(ret.doc_id) = args.max_seq_length
        /\ Len(ret.lm_label_ids) = args.max_seq_length

\* a Feature returned for a token sequence longer than max_seq_length
C1_Witness ==
    /\ Converted
    /\ Len(call.doc_tok) > args.max_seq_length
    /\ Len(ret.lm_label_ids) = args.max_seq_length

\* C2: for a token sequence of k < max_seq_length tokens, the Feature has
\* input_mask 0, input_ids 0, doc_id 0 and lm_label_ids -1 at every position of
\* [k, max_seq_length), and input_mask 1 and doc_id the example's doc_id at every
\* position of [0, k).
C2_Padding ==
    (Converted /\ Len(call.doc_tok) < args.max_seq_length) =>
        \A i \in 1..args.max_seq_length :
            IF i > Len(call.doc_tok)
            THEN /\ ret.input_mask[i] = 0
                 /\ ret.input_ids[i] = 0
                 /\ ret.doc_id[i] = 0
                 /\ ret.lm_label_ids[i] = -1
            ELSE /\ ret.input_mask[i] = 1
                 /\ ret.doc_id[i] = call.doc_id

\* a padded Feature of a non-empty example whose doc_id is not 0
C2_Witness ==
    /\ Converted
    /\ call.doc_tok # <<>>
    /\ Len(call.doc_tok) < args.max_seq_length
    /\ call.doc_id # 0
    /\ ret.input_mask[args.max_seq_length] = 0

\* C3: in single-token mode (mask_prob == -1), for every non-empty token sequence,
\* the label at the chosen index is the vocabulary id of the original token that
\* stood there before it was replaced by the mask-token, and every other label is -1.
C3_SingleLabelIsOriginal ==
    (Masked /\ mask_prob = SingleToken) =>
        \A i \in 1..Len(call.tokens) :
            IF i - 1 = call.ch.mask_index
            THEN call.tokens[i] \in DOMAIN vocab =>
                     ret.output_label[i] = vocab[call.tokens[i]]
            ELSE ret.output_label[i] = -1

\* C4: for every non-empty token sequence, random_word in single-token mode returns
\* labels with exactly one entry that is not -1 and tokens with exactly one
\* mask-token, both at the same index.
C4_SingleExactlyOne ==
    (call.op = "random_word" /\ mask_prob = SingleToken /\ call.tokens # <<>>) =>
        /\ ret.err = "none"
        /\ Len(ret.output_label) = Len(ret.tokens)
        /\ Cardinality(NotIgnored(ret.output_label)) = 1
        /\ Cardinality(MaskedAt(ret.tokens)) = 1
        /\ NotIgnored(ret.output_label) = MaskedAt(ret.tokens)

\* single-token masking of a sequence of several tokens, not at its first index
C4_Witness ==
    /\ Masked
    /\ mask_prob = SingleToken
    /\ Len(call.tokens) >= 2
    /\ call.ch.mask_index >= 1
    /\ ret.tokens[call.ch.mask_index + 1] = MASK

\* C5: in probabilistic mode (mask_prob == p), at every index i with draw r_i:
\* if r_i < p the returned token is the mask-token and the label is the original
\* token's vocabulary id (the unknown-token id if the token is not in the
\* vocabulary); otherwise the token is unchanged and the label is -1.  The labels
\* are as many as the tokens.
C5_Probabilistic ==
    (Masked /\ mask_prob # SingleToken) =>
        /\ Len(ret.output_label) = Len(call.tokens)
        /\ Len(ret.tokens) = Len(call.tokens)
        /\ \A i \in 1..Len(call.tokens) :
              IF call.ch.draws[i] < mask_prob
              THEN /\ ret.tokens[i] = MASK
                   /\ ret.output_label[i] =
                          (IF call.tokens[i] \in DOMAIN vocab
                           THEN vocab[call.tokens[i]] ELSE vocab[UNK])
              ELSE /\ ret.tokens[i] = call.tokens[i]
                   /\ ret.output_label[i] = -1

\* probabilistic masking that masks a token absent from the vocabulary and leaves
\* alone a token whose draw equals mask_prob
C5_Witness ==
    /\ Masked
    /\ mask_prob # SingleToken
    /\ \E i \in 1..Len(call.tokens) :
          /\ call.tokens[i] \notin DOMAIN vocab
          /\ call.ch.draws[i] < mask_prob
          /\ ret.output_label[i] = vocab[UNK]
    /\ \E j \in 1..Len(call.tokens) :
          /\ call.ch.draws[j] = mask_prob
          /\ ret.tokens[j] = call.tokens[j]

\* position i (from 1) of the example was masked by random_word
WasMasked(i) ==
    IF mask_prob = SingleToken
    THEN i - 1 = call.ch.mask_index
    ELSE call.ch.draws[i] < mask_prob

\* C6: in every Feature, lm_label_ids[i] != -1 if and only if position i lies
\* within the first min(n, max_seq_length) positions and was masked by random_word;
\* equivalently, exactly at the positions where input_ids[i] is the mask-token id.
C6_LabelIffMasked ==
    Converted =>
        \A i \in 1..args.max_seq_length :
            /\ (ret.lm_label_ids[i] # -1) <=>
                   (i <= Min(Len(call.doc_tok), args.max_seq_length) /\ WasMasked(i))
            /\ (ret.lm_label_ids[i] # -1) <=> (ret.input_ids[i] = vocab[MASK])

\* a truncated Feature with a masked position kept, an unmasked position kept and
\* a masked position cut off
C6_Witness ==
    /\ Converted
    /\ mask_prob # SingleToken
    /\ Len(call.doc_tok) > args.max_seq_length
    /\ \E i, j \in 1..args.max_seq_length :
          /\ ret.lm_label_ids[i] # -1
          /\ ret.lm_label_ids[j] = -1
          /\ call.doc_tok[j] \notin DOMAIN vocab
    /\ call.ch.draws[Len(call.doc_tok)] < mask_prob

\* a successful __getitem__ call in single-token mode, and its document's tokens
GotSingle == call.op = "get" /\ mask_prob = SingleToken
GotDocTokens == tokenize(all_docs[call.item + 1])
OnesThenZeros(k, n) == Fill(k, 1) \o Fill(n - k, 0)

GotKept == {j \in 1..Len(GotDocTokens) :
               /\ GotDocTokens[j] \in DOMAIN vocab
               /\ vocab[GotDocTokens[j]] # 0}

StrippedLines ==
    LET lines == FileLines(dataset.content)
    IN  [i \in 1..Len(lines) |-> Strip(lines[i])]
BlankLines(lines) == {i \in 1..Len(lines) : lines[i] = <<>>}
RECURSIVE Concat(_)
Concat(ss) == IF ss = <<>> THEN <<>> ELSE Head(ss) \o Concat(Tail(ss))
\* the text of the lines after the last blank line
FinalBlock(lines) ==
    LET from == IF BlankLines(lines) = {} THEN 1
                ELSE 1 + CHOOSE i \in BlankLines(lines) :
                              \A j \in BlankLines(lines) : j <= i
    IN  Concat(SubSeq(lines, from, Len(lines)))
MyDatasetDone == dataset.isPath /\ pc \in {"loaded", "failed"}

\* C8: when the corpus is read from a path and the final line is non-blank, the
\* accumulated final block is appended as the last document, for every file
\* content (a file without any blank line, a final block equal to the document
\* before it): one document per blank line, and the final block after them.
C8_FinalBlockAppended ==
    (MyDatasetDone /\ StrippedLines # <<>> /\ Last(StrippedLines) # <<>>) =>
        /\ pc = "loaded"
        /\ Len(all_docs) = Cardinality(BlankLines(StrippedLines)) + 1
        /\ Last(all_docs) = FinalBlock(StrippedLines)

\* the texts of the maximal runs of non-blank lines, in file order
RECURSIVE Blocks(_, _)
Blocks(lines, cur) ==
    IF lines = <<>> THEN (IF cur = <<>> THEN <<>> ELSE <<cur>>)
    ELSE IF Head(lines) # <<>> THEN Blocks(Tail(lines), cur \o Head(lines))
    ELSE (IF cur = <<>> THEN <<>> ELSE <<cur>>) \o Blocks(Tail(lines), <<>>)

\* C9: when the corpus is read from a path, every document is a non-empty string,
\* for every arrangement of blank and non-blank lines; the documents are, in file
\* order, the separator-free concatenations of the stripped non-blank lines of the
\* blocks.
C9_NonEmptyDocuments ==
    (dataset.isPath /\ pc = "loaded") =>
        /\ \A i \in 1..Len(all_docs) : all_docs[i] # <<>>
        /\ all_docs = Blocks(StrippedLines, <<>>)

\* C10: in every vocabulary built by Tokenizer the unknown-token id and the
\* mask-token id are the two highest ids (|vocab| - 2 and |vocab| - 1), and every
\* corpus token has an id below both.
C10_SentinelsHighest ==
    (DOMAIN vocab # {}) =>
        /\ vocab[UNK] = Cardinality(DOMAIN vocab) - 2
        /\ vocab[MASK] = Cardinality(DOMAIN vocab) - 1
        /\ \A t \in DOMAIN vocab \ {UNK, MASK} :
              /\ vocab[t] >= 0
              /\ vocab[t] < vocab[UNK]
              /\ vocab[t] < vocab[MASK]

\* a vocabulary of three corpus tokens and the two sentinels
C10_Witness ==
    /\ pc = "ready"
    /\ Cardinality(DOMAIN vocab) = 5
    /\ vocab[MASK] = 4

\* ------------------------------------------------------------ Tokenizer contracts
\* C11 (as claimed): for every vocab_size V >= 2 and every corpus with q tokens
\* surviving the document-frequency filter, Tokenizer construction succeeds and
\* the vocabulary has exactly min(V, q + 2) entries whose ids are exactly
\* 0..|vocab|-1, one token per id (V = 2: just the two sentinels).  Construction
\* raises ValueError for V = 2 and for q = 0.
C11_TokenizerSucceeds ==
    (call.op = "Tokenizer" /\ call.vocab_size >= 2) =>
        /\ ret.err = "none"
        /\ VocabLen(vocab) =
              Min(call.vocab_size, Cardinality(Survivors(call.docs)) + 2)
        /\ {vocab[t] : t \in DOMAIN vocab} = 0..(VocabLen(vocab) - 1)

\* C12: convert_tokens_to_ids never fails; it returns as many ids as it is given
\* tokens, a token of the vocabulary (the token with id 0 included) maps to its own
\* id and a token absent from the vocabulary maps to the unknown-token id.
C12_TokensToIds ==
    (call.op = "convert_tokens_to_ids") =>
        /\ ret.err = "none"
        /\ Len(ret.ids) = Len(call.tokens)
        /\ \A i \in 1..Len(call.tokens) :
              ret.ids[i] = IF call.tokens[i] \in DOMAIN vocab
                           THEN vocab[call.tokens[i]]
                           ELSE vocab[UNK]

\* the id-0 token and a token that is not in the vocabulary converted in one call
C12_Witness ==
    /\ call.op = "convert_tokens_to_ids"
    /\ \E i \in 1..Len(call.tokens) :
          call.tokens[i] \in DOMAIN vocab /\ ret.ids[i] = 0
    /\ \E i \in 1..Len(call.tokens) :
          call.tokens[i] \notin DOMAIN vocab /\ ret.ids[i] = vocab[UNK]

\* C13: convert_ids_to_tokens is a strict inverse of the vocabulary: for ids all
\* drawn from 0..|vocab|-1 converting the returned tokens back gives the ids, and
\* a sequence with an id outside 0..|vocab|-1 fails with a lookup error (KeyError)
\* instead of returning a value.
C13_IdsRoundTrip ==
    (call.op = "convert_ids_to_tokens") =>
        IF \A i \in 1..Len(call.ids) : call.ids[i] \in 0..(VocabLen(vocab) - 1)
        THEN /\ ret.err = "none"
             /\ Len(ret.tokens) = Len(call.ids)
             /\ convert_tokens_to_ids(vocab, ret.tokens) = call.ids
        ELSE ret.err = "KeyError"

\* a round trip through the id-0 token and both sentinels
C13_Witness ==
    /\ call.op = "convert_ids_to_tokens"
    /\ ret.err = "none"
    /\ {0, vocab[UNK], vocab[MASK]} \subseteq Range(call.ids)
    /\ {UNK, MASK} \subseteq Range(ret.tokens)

\* ------------------------------------------------------------ entity weights
\* the tokens of the entity strings (FIELD and TEC) of the records, lower-cased
EntityTokens(ents) ==
    UNION {UNION {Range(tokenize(LowerCase(e))) : e \in ents[i].FIELD \cup ents[i].TEC} :
              i \in 1..Len(ents)}

\* C14 (as claimed): set_entities_weight leaves a weight vector of length |vocab|
\* that holds the weight w at the id of every entity token and 1 at every other
\* id (all 1 when no entities are given).  An entity token that is not in the
\* vocabulary puts w at the id of the unknown-token instead.
C14_EntityWeights ==
    (call.op = "set_entities_weight") =>
        /\ Len(ent_weights) = VocabLen(vocab)
        /\ \A t \in DOMAIN vocab :
              ent_weights[vocab[t] + 1] =
                  IF t \in EntityTokens(call.entities) THEN call.weight ELSE 1

\* C14 (amended): the vector has length |vocab| and holds w at the id of every
\* entity token that is in the vocabulary, and at the id of the unknown-token when
\* some entity token is not in the vocabulary, and 1 at every other id; without
\* entities it is all 1.
C14_EntityWeightsWithUnknown ==
    (call.op = "set_entities_weight") =>
        /\ Len(ent_weights) = VocabLen(vocab)
        /\ \A t \in DOMAIN vocab :
              ent_weights[vocab[t] + 1] =
                  IF \/ t \in EntityTokens(call.entities)
                     \/ t = UNK /\ ~(EntityTokens(call.entities) \subseteq DOMAIN vocab)
                  THEN call.weight
                  ELSE 1

\* entities of which one token is in the vocabulary and another is not
C14_Witness ==
    /\ call.op = "set_entities_weight"
    /\ \E t \in EntityTokens(call.entities) :
          t \in DOMAIN vocab /\ ent_weights[vocab[t] + 1] = EntityWeight
    /\ \E t \in EntityTokens(call.entities) : t \notin DOMAIN vocab
    /\ ent_weights[vocab[UNK] + 1] = EntityWeight
    /\ ent_weights[vocab[MASK] + 1] = 1

\* ------------------------------------------------------------ the sweep
\* the number of configurations that reached "msds.append(msd)"
ConfigsEnded == Len(run.msds)
\* the current configuration has created its model and not yet ended
Training ==
    pc \in {"epoch", "batch", "means", "hook", "persist", "append"}
    \/ (pc = "failed" /\ err \in {"RuntimeError", "HookError"})
    \/ (pc = "failed" /\ call.op = "get" /\ ret.err # "none")
ScoreValues == [i \in 1..Len(run.scores) |-> run.scores[i].val]

\* C15 (as claimed): with a hook that returns a scalar score and at least one
\* epoch, every configuration that ends appends its best score, the maximum over
\* its epochs of the hook's scores, so that a completed sweep hands n entries in
\* sweep order to best_scores.txt.  The best-score statement indexes each score
\* with [1] and raises TypeError on a scalar.
C15_BestScores ==
    (hook = "scalar" /\ args.num_train_epochs >= 1) =>
        /\ err # "TypeError"
        /\ Len(run.best_scores) = ConfigsEnded
        /\ (ConfigsEnded >= 1 /\ pc = "start") =>
               run.best_scores[ConfigsEnded] = MaxOf(ScoreValues)
        /\ pc = "done" =>
               /\ Len(run.best_scores) = Len(SweepList(args))
               /\ files["best_scores.txt"] = run.best_scores

\* the mini-batches of one epoch
NumBatches ==
    (Len(all_docs) + args.train_batch_size - 1) \div args.train_batch_size
\* hook calls made in the current configuration, a call that raised included
HookCallsHere == Len(run.scores) + (IF err = "HookError" THEN 1 ELSE 0)
\* epochs of the current configuration whose mini-batches are all processed
EpochsTrained ==
    run.epoch + (IF pc \in {"means", "hook"} \/ err = "HookError" THEN 1 ELSE 0)
\* epochs of the current configuration whose means are recorded
MeansRecorded == Len(run.msd) - Len(InitialMeans(0))

\* C16: the hook is called exactly once per epoch per configuration, after all
\* mini-batches of the epoch are processed and after the means of the epoch are
\* recorded; a completed sweep of n configurations of E epochs makes n * E calls.
C16_HookOncePerEpoch ==
    /\ run.hook_calls =
           ConfigsEnded * args.num_train_epochs + (IF Training THEN HookCallsHere ELSE 0)
    /\ Training =>
           /\ HookCallsHere <= MeansRecorded
           /\ MeansRecorded <= HookCallsHere + 1
           /\ MeansRecorded <= EpochsTrained
           /\ HookCallsHere <= args.num_train_epochs
    /\ pc = "hook" =>
           /\ run.pending = {} /\ run.batch = 0
           /\ run.step = NumBatches
           /\ MeansRecorded = run.epoch + 1
           /\ Last(run.msd) = DocMean(run.model)
           /\ Last(run.msw) = WordMean(run.model)
           /\ Len(run.scores) = run.epoch
    /\ pc = "done" =>
           run.hook_calls = Len(SweepList(args)) * args.num_train_epochs

\* a completed sweep of five configurations of MaxEpochs epochs each
C16_Witness ==
    /\ pc = "done"
    /\ Len(SweepList(args)) = Len(Probs)
    /\ args.num_train_epochs = MaxEpochs
    /\ run.hook_calls = Len(Probs) * MaxEpochs

\* optimizer steps of one epoch: one for every gradient_accumulation_steps batches
StepsPerEpoch == NumBatches \div args.gradient_accumulation_steps
\* the model of the current configuration after k epochs
ModelAfter(k) == [mask_prob |-> mask_prob, updates |-> k * StepsPerEpoch]

ListedProbs == IF args.all_mask THEN <<SingleToken, 1, 2, 3, 4>> ELSE <<args.mask_prob>>
ConfigPhases(c) ==
    <<Phase("vocab", c, 0), Phase("model", c, 0)>>
    \o [k \in 1..args.num_train_epochs |-> Phase("epoch", c, k - 1)]
    \o <<Phase("persist", c, 0), Phase("append", c, 0)>>
RECURSIVE SweepPhases(_)
SweepPhases(c) ==
    IF c > Len(ListedProbs) THEN <<>> ELSE ConfigPhases(c) \o SweepPhases(c + 1)
IsPrefix(s, t) == Len(s) <= Len(t) /\ s = SubSeq(t, 1, Len(s))

\* C18: the sweep list ([-1, 0.25, 0.5, 0.75, 1] with all_mask, else the one
\* mask_prob) is processed sequentially in list order; in each configuration the
\* phases are vocabulary build, model initialisation, epochs 0..num_epochs-1,
\* persist, best-score append; the vocabulary build of a configuration starts
\* after the best score of the one before is appended; and the global mask_prob
\* is that of the current configuration during all of its sample accesses.
C18_SequentialSweep ==
    /\ run.cfg <= Len(ListedProbs)
    /\ IsPrefix(run.phases, SweepPhases(1))
    /\ run.cfg >= 1 => mask_prob = ListedProbs[run.cfg]
    /\ (Phase("vocab", run.cfg, 0) \in Range(run.phases)) =>
           Len(run.best_scores) >= run.cfg - 1
    /\ (call.op = "get" /\ pc = "batch") =>
           /\ mask_prob = ListedProbs[run.cfg]
           /\ Last(run.phases) = Phase("epoch", run.cfg, run.epoch)
    /\ pc = "done" => run.phases = SweepPhases(1)

\* a sample access in the second epoch of the third configuration of a sweep
C18_Witness ==
    /\ call.op = "get" /\ pc = "batch"
    /\ args.all_mask
    /\ run.cfg = 3 /\ run.epoch = 1
    /\ mask_prob = 2
    /\ Len(run.best_scores) = 2

\* ------------------------------------------------------------ failures
InvalidArgs ==
    \/ args.gradient_accumulation_steps < 1
    \/ args.vocab_size < 2
    \/ ~args.do_train

\* C19: with gradient_accumulation_steps < 1, vocab_size < 2 or do_train unset,
\* main ends with an error before any training: it makes no forward call, no
\* optimizer step and no hook call, writes no model, configuration or best-scores
\* file, and never gets past the construction of the Tokenizer.
C19_InvalidArgsFatal ==
    InvalidArgs =>
        /\ run.forward_calls = 0
        /\ run.optimizer_steps = 0
        /\ run.hook_calls = 0
        /\ files = NoFiles
        /\ sample_counter = 0
        /\ pc \in {"start", "config", "loaded", "failed"}
        /\ pc = "start" => run.cfg = 0
        /\ pc = "failed" => err \in {"ValueError", "IndexError"}
        /\ ~(ENABLED NextMain) => pc = "failed"

\* vocab_size = 1: the corpus is loaded and the Tokenizer raises
C19_Witness ==
    /\ pc = "failed"
    /\ err = "ValueError"
    /\ args.vocab_size < 2
    /\ all_docs # <<>>
    /\ call.op = "Tokenizer" /\ ret.err = "ValueError"

\* C20: when a step of main fails in any configuration (the forward call, a
\* sample access, the hook or the best-score computation raising), main ends
\* with that error, nothing is retried and best_scores.txt is not written;
\* best_scores.txt is written only after every configuration of the sweep list
\* has finished.
C20_FailFast ==
    /\ pc = "failed" =>
           /\ err # "none"
           /\ "best_scores.txt" \notin DOMAIN files
           /\ ~(ENABLED NextMain)
    /\ err # "none" => pc = "failed"
    /\ "best_scores.txt" \in DOMAIN files =>
           /\ pc = "done"
           /\ run.cfg = Len(ListedProbs)
           /\ Len(run.best_scores) = Len(ListedProbs)
           /\ files["best_scores.txt"] = run.best_scores

\* a forward call that raises in the third configuration, after two configurations
\* were trained and saved
C20_Witness ==
    /\ pc = "failed"
    /\ err = "RuntimeError"
    /\ run.cfg = 3
    /\ Len(run.best_scores) = 2
    /\ "pytorch_model.bin" \in DOMAIN files
    /\ "best_scores.txt" \notin DOMAIN files

\* ------------------------------------------------------------ saved files
\* the configurations whose model and configuration were saved
Persisted == {c \in 1..run.cfg : Phase("persist", c, 0) \in Range(run.phases)}
\* the files of the output directory that hold model parameters
ModelFiles == DOMAIN files \ {"bert_config.json", "best_scores.txt"}

\* C21 (as claimed): the model parameters saved for a completed configuration
\* stay on disk, present and unchanged, whatever later configurations of the
\* sweep do.  Every configuration saves to the same pytorch_model.bin, so the
\* parameters of an earlier configuration are overwritten by the next one.
C21_ArtifactsRemain ==
    \A c \in Persisted :
        \E n \in ModelFiles : files[n].mask_prob = ListedProbs[c]

\* ------------------------------------------------------------ access counter
\* sample accesses of one completed configuration
GetsPerConfig == args.num_train_epochs * Len(all_docs)
\* the configurations that ended and made a sample access
LoggedEnded == IF args.num_train_epochs >= 1 THEN ConfigsEnded ELSE 0
\* the first access of the current configuration returned a Feature
FirstGetDone ==
    /\ Training
    /\ sample_counter >= 1
    /\ ~(sample_counter = 1 /\ call.op = "get" /\ ret.err # "none")

\* C22 (as claimed): guid is the access counter, which grows by one with every
\* get, and the first-sample log is written once globally: in a whole sweep only
\* the very first get logs.  Every configuration builds a new MyDataset whose
\* counter starts at 0, so the first get of each configuration logs.
C22_LogsOnceGlobally ==
    /\ (Training /\ call.op = "get") => call.guid + 1 = sample_counter
    /\ run.logs <= 1
    /\ run.gets >= 1 /\ FirstGetDone => run.logs = 1

\* C22 (amended): within one configuration guid is the number of earlier accesses
\* of that configuration's dataset, and the log is written once per
\* configuration, by its first get, whatever its index.
C22_LogsOncePerConfig ==
    /\ (Training /\ call.op = "get") => call.guid + 1 = sample_counter
    /\ Training => sample_counter = run.gets - ConfigsEnded * GetsPerConfig
    /\ run.logs = LoggedEnded + (IF FirstGetDone THEN 1 ELSE 0)

\* the first access of the second configuration logs again, for a document other
\* than the first
C22_Witness ==
    /\ run.cfg = 2
    /\ call.op = "get" /\ call.guid = 0 /\ call.item # 0
    /\ ret.err = "none"
    /\ run.logs = 2
    /\ run.gets > sample_counter

\* ------------------------------------------------------------ empty documents
\* C23: in single-token mode get never hands random_word a zero-length token
\* sequence, for any corpus and any document index, so get does not fail on
\* an empty index range.  A blank corpus line, or a line none of whose tokens
\* survives the vocabulary filter, gives an empty list and randint(0, -1).
C23_NonEmptySingle ==
    GotSingle => (call.doc_tok # <<>> /\ ret.err # "ValueError")

\* ------------------------------------------------------------ entity records
\* C24: set_entities_weight leaves the entity records it is given unchanged:
\* after the call the FIELD and TEC sets of dataset.entities are those of
\* before.  field_set.update(tec_set) adds the TEC strings to the record's own
\* FIELD set.
C24_EntitiesUnchanged ==
    (call.op = "set_entities_weight" /\ args.weighted) =>
        \A i \in 1..Len(entities) :
            /\ entities[i].FIELD = call.entities[i].FIELD
            /\ entities[i].TEC = call.entities[i].TEC

\* ------------------------------------------------------------ vocabulary filter
\* C26: get keeps exactly the tokens of the document that are in the
\* vocabulary, in their order; the token whose id is 0 is kept.  The filter
\* tests the truth of vocab.get(x), and the id 0 is falsy.
C26_KeepsVocabTokens ==
    call.op = "get" =>
        call.doc_tok = SelectSeq(GotDocTokens, LAMBDA x : x \in DOMAIN vocab)

\* ------------------------------------------------------------ batch size
\* C25: the batch size used for training is the same in every configuration of
\* a sweep, the configured train_batch_size divided once by
\* gradient_accumulation_steps, and is never 0 in a later configuration when
\* it was positive in the first.  The division is inside the loop over the
\* sweep and is applied again to its own result in every configuration.
C25_BatchSizeFixed ==
    /\ \A c \in 1..Len(run.batch_sizes) : run.batch_sizes[c] = run.batch_sizes[1]
    /\ (run.batch_sizes # <<>> /\ run.batch_sizes[1] > 0) => err # "ZeroDivisionError"

\* ------------------------------------------------------------ optimizer steps
\* C27: within one configuration global_step never exceeds the planned total
\* num_train_optimization_steps handed to the optimizer as t_total, and the
\* planned total is not 0 when a step is made.  The plan rounds the number of
\* batches per epoch down, while the data loader also yields the last, partial
\* batch, which makes a step as well.
C27_StepsWithinPlan ==
    Training =>
        /\ run.global_step <= run.planned
        /\ run.global_step > 0 => run.planned > 0

\* ------------------------------------------------------------ single-token labels
\* the labelled positions of the returned Feature
LabelCount == Cardinality(NotIgnored(ret.lm_label_ids))

\* C28: in single-token mode the Feature of a non-empty token sequence of
\* length n has at most one lm_label_ids entry != -1; exactly one when
\* n <= max_seq_length; and none exactly when n > max_seq_length and the chosen
\* mask index is >= max_seq_length, the head truncation cutting the masked
\* position off.
C28_SingleLabelCount ==
    (Converted /\ mask_prob = SingleToken /\ call.doc_tok # <<>>) =>
        /\ LabelCount <= 1
        /\ Len(call.doc_tok) <= args.max_seq_length => LabelCount = 1
        /\ LabelCount = 0 <=> (/\ Len(call.doc_tok) > args.max_seq_length
                               /\ call.ch.mask_index >= args.max_seq_length)

\* a Feature without label: the masked position was behind max_seq_length
C28_Witness ==
    /\ Converted
    /\ mask_prob = SingleToken
    /\ Len(call.doc_tok) = MaxLen
    /\ args.max_seq_length = 1
    /\ call.ch.mask_index = MaxLen - 1
    /\ LabelCount = 0
    /\ ret.input_ids[1] # vocab[MASK]

\* ------------------------------------------------------------ result of a sweep
\* C29: the document embedding returned by main, and the model parameters and
\* configuration left in the output directory after a completed sweep, are
\* those of the last configuration of the sweep list, whichever configuration
\* had the highest best score.
C29_LastConfigReturned ==
    pc = "done" =>
        /\ run.cfg = Len(ListedProbs)
        /\ ret.X = ModelAfter(args.num_train_epochs)
        /\ ret.X.mask_prob = Last(ListedProbs)
        /\ files["pytorch_model.bin"] = ret.X
        /\ files["bert_config.json"] = [vocab_size |-> VocabLen(vocab)]

\* a completed sweep of five configurations whose first configuration scored
\* higher than its last
C29_Witness ==
    /\ pc = "done"
    /\ Len(run.best_scores) = Len(Probs)
    /\ run.best_scores[1] > Last(run.best_scores)
    /\ ret.X.mask_prob = ProbScale
    /\ ret.X.updates > 0

\* ------------------------------------------------------------ full masking
\* the positions of the Feature that hold a token of the example
RealPositions ==
    1..(IF Len(call.doc_tok) < args.max_seq_length
        THEN Len(call.doc_tok) ELSE args.max_seq_length)

\* C30: with mask_prob == 1, the default configured probability and the last
\* value of the sweep, random_word replaces every token by the mask-token and
\* labels it with the id of the original token, every draw of [0, 1) being
\* < 1; every real-token position of the Feature has input_ids equal to the
\* id of the mask-token and lm_label_ids != -1.
C30_FullMasking ==
    /\ DefaultArgs.mask_prob = ProbScale
    /\ Last(Probs) = ProbScale
    /\ (Masked /\ mask_prob = ProbScale) =>
           /\ Len(ret.tokens) = Len(call.tokens)
           /\ \A i \in 1..Len(call.tokens) :
                  /\ ret.tokens[i] = MASK
                  /\ ret.output_label[i] = TokenId(vocab, call.tokens[i])
    /\ (Converted /\ mask_prob = ProbScale) =>
           \A i \in RealPositions :
               /\ ret.input_ids[i] = vocab[MASK]
               /\ ret.lm_label_ids[i] = TokenId(vocab, call.doc_tok[i])
               /\ ret.lm_label_ids[i] # Ignore

\* a fully masked Feature of two tokens, one masked on the largest draw and
\* labelled with the id 0
C30_Witness ==
    /\ Converted
    /\ mask_prob = ProbScale
    /\ Len(call.doc_tok) = 2
    /\ args.max_seq_length >= 2
    /\ \E i \in 1..2 :
          /\ call.ch.draws[i] = ProbScale - 1
          /\ ret.lm_label_ids[i] = 0
    /\ \A i \in 1..2 : ret.input_ids[i] = vocab[MASK]

====
